---- MODULE Spec2Model ----
(***************************************************************************)
(* Ingestion / task pipeline of the docling-cf worker (src/src/index.ts).  *)
(*                                                                         *)
(* The five D1 relations are sequences of rows in rowid (insertion) order. *)
(* Every request is one run of fetch(): it launches ensureDefaultVectorizer*)
(* through ctx.waitUntil and then the route handler.  A handler and a      *)
(* bootstrap run are sequences of awaited D1 statements; each statement is *)
(* one atomic step, and steps of different runs interleave freely.  A D1   *)
(* statement may throw: the handler's catch turns that into a 500          *)
(* response, the bootstrap's catch only logs it.                           *)
(*                                                                         *)
(* crypto.randomUUID() is modelled by ids that are fresh by construction:  *)
(* request r uses document id r and task id r.  A generated vectorizer id  *)
(* is seen by nobody before its INSERT, so it is named there: the k-th row *)
(* inserted into vectorizers has id k.                                     *)
(***************************************************************************)
EXTENDS Integers, Sequences, FiniteSets, TLC

\* Number of requests that arrive in a behaviour.
MaxRequests == 3

\* Number of requests whose handler or bootstrap run is executing at a time.
MaxConcurrent == 2

\* Number of D1 statements that throw in a behaviour.
MaxFailures == 1

\* const CHUNK_SIZE_TOKENS = 1000 in the source; scaled down so that contents
\* around and beyond the threshold can be enumerated.
CHUNK_SIZE_TOKENS == 2

MAX_FILE_SIZE_MB == 5

\* env.DEFAULT_MODEL || 'gpt-4o-mini'
DefaultModelName == "gpt-4o-mini"

RequestIds == 1..MaxRequests

-----------------------------------------------------------------------------
(* Optional values: SQL NULL / JS undefined is None, a value v is Some(v). *)
None == <<>>
Some(v) == <<v>>

\* JS `s || d` on an optional string: undefined, null and "" are falsy.
Truthy(o) == o # None /\ o[1] # ""
OrElse(o, d) == IF Truthy(o) THEN o[1] ELSE d
\* Variant: the empty string is bound as it is instead of as null.
OrNullKeepEmpty(o) == o
\* `data.x || null` as bound to a statement parameter.
OrNull(o) == IF Truthy(o) THEN o ELSE None
\* Variant: the column always wins.
CoalesceColumn(param, column) == column
\* SQL COALESCE(?, column)
Coalesce(param, column) == IF param # None THEN param ELSE column

Min(a, b) == IF a <= b THEN a ELSE b
Max(a, b) == IF a >= b THEN a ELSE b

\* Variant: every slice is taken from the start of the text.
SubstringFromZero(s, start, end) == SubSeq(s, 1, IF end <= Len(s) THEN end ELSE Len(s))

\* String.prototype.substring(start, end) on a text (a sequence of characters).
Substring(s, start, end) ==
    LET a == Max(0, Min(start, Len(s)))
        b == Max(0, Min(end, Len(s)))
    IN SubSeq(s, Min(a, b) + 1, Max(a, b))

\* Variant: Math.floor in place of Math.ceil.
CeilFloor(a, b) == a \div b

\* Math.ceil(a / b) for a >= 0, b > 0.
Ceil(a, b) == IF a % b = 0 THEN a \div b ELSE (a \div b) + 1

\* Array.prototype.join('') over a sequence of texts.
RECURSIVE Join(_)
Join(ts) == IF ts = <<>> THEN <<>> ELSE Head(ts) \o Join(Tail(ts))

-----------------------------------------------------------------------------
VARIABLES
    documents,     \* relation documents
    tasks,         \* relation tasks
    sources,       \* relation sources
    file_chunks,   \* relation file_chunks
    vectorizers,   \* relation vectorizers
    started,       \* number of requests received so far
    pc,            \* position of each request's handler
    req,           \* the request each handler was given
    resp,          \* the response each handler produced
    idx,           \* loop index of the handler (source loop / chunk loop)
    vectorizerId,  \* the handler's local vectorizerId (0: not assigned)
    existing,      \* whether the handler's lookup found a vectorizer row
    joined,        \* result handler: the row read by the task/document join
    bpc,           \* position of each request's ensureDefaultVectorizer run
    failures,      \* number of D1 statements that have thrown
    workload       \* which mix of requests this behaviour draws from

tables == <<documents, tasks, sources, file_chunks, vectorizers>>
locals == <<idx, vectorizerId, existing, joined>>
vars == <<documents, tasks, sources, file_chunks, vectorizers,
          started, pc, req, resp, idx, vectorizerId, existing, joined, bpc,
          failures, workload>>

-----------------------------------------------------------------------------
(* Rows *)
DocumentRow(id, name, format, pages, content, vid) ==
    [id |-> id, name |-> name, format |-> format, pages |-> pages,
     content |-> content, vectorizer_id |-> vid]

\* Variant: every task row references the first document.
TaskRowFirstDocument(id, status, docId, message) ==
    [id |-> id, status |-> status, document_id |-> 1,
     progress |-> Some(0), message |-> Some(message), error |-> None,
     created_at |-> id]

\* tasks.progress is REAL DEFAULT 0, tasks.error has no default.
\* tasks.created_at is DEFAULT CURRENT_TIMESTAMP: the time of the INSERT,
\* named here by the request that runs it (0 names no insert of a task).
TaskRow(id, status, docId, message) ==
    [id |-> id, status |-> status, document_id |-> docId,
     progress |-> Some(0), message |-> Some(message), error |-> None,
     created_at |-> id]

SourceRow(id, docId, url) == [id |-> id, document_id |-> docId, url |-> url]

ChunkRow(id, docId, i, content) ==
    [id |-> id, document_id |-> docId, chunk_index |-> i, content |-> content]

VectorizerRow(id, modelName, ocr) ==
    [id |-> id, model_name |-> modelName, engine_type |-> "openai",
     chunk_size |-> CHUNK_SIZE_TOKENS, ocr_engine |-> ocr]

HasId(rows, id) == \E i \in 1..Len(rows) : rows[i].id = id
RowById(rows, id) == rows[CHOOSE i \in 1..Len(rows) : rows[i].id = id]

-----------------------------------------------------------------------------
(* D1 statements *)

\* Variant: the lookup ignores the model name.
SelectVectorizerAny(vs, modelName) ==
    IF Len(vs) = 0 THEN None ELSE Some(vs[1])

\* Variant: the lookup never finds a row.
SelectVectorizerBlind(vs, modelName) == None

\* SELECT id FROM vectorizers WHERE model_name = ?  ... .first()
\* No index covers model_name, so the scan returns rows in rowid order and
\* first() is the earliest inserted match.
SelectVectorizer(vs, modelName) ==
    LET I == {i \in 1..Len(vs) : vs[i].model_name = modelName}
    IN IF I = {} THEN None
       ELSE Some(vs[CHOOSE i \in I : \A j \in I : i <= j])

\* Variant: the INSERT stores nothing.
InsertVectorizerLost(vs, id, modelName, ocr) == vs

\* INSERT INTO vectorizers (...): the only constraint is PRIMARY KEY (id);
\* model_name carries no UNIQUE constraint.
InsertVectorizer(vs, id, modelName, ocr) ==
    Append(vs, VectorizerRow(id, modelName, ocr))

\* Variant: the UPDATE keeps only the row it names.
UpdateDocumentVectorizerOnly(docs, vid, id) ==
    SelectSeq([i \in 1..Len(docs) |->
                  [docs[i] EXCEPT !.vectorizer_id = Some(vid)]],
              LAMBDA row : row.id = id)

\* UPDATE documents SET vectorizer_id = ? WHERE id = ?
UpdateDocumentVectorizer(docs, vid, id) ==
    [i \in 1..Len(docs) |->
        IF docs[i].id = id THEN [docs[i] EXCEPT !.vectorizer_id = Some(vid)]
        ELSE docs[i]]

\* SELECT id, status, message, progress, error FROM tasks WHERE id = ?
SelectTask(ts, id) == IF HasId(ts, id) THEN Some(RowById(ts, id)) ELSE None

\* SELECT ... FROM tasks t JOIN documents d ON t.document_id = d.id WHERE t.id = ?
JoinTaskDocument(ts, docs, id) ==
    IF HasId(ts, id) /\ HasId(docs, RowById(ts, id).document_id)
    THEN Some([task |-> RowById(ts, id),
               doc |-> RowById(docs, RowById(ts, id).document_id)])
    ELSE None

\* SELECT content FROM file_chunks WHERE document_id = ? ORDER BY chunk_index ASC
RECURSIVE OrderByChunkIndex(_)
OrderByChunkIndex(rows) ==
    IF rows = {} THEN <<>>
    ELSE LET m == CHOOSE r \in rows :
                    \A q \in rows : r.chunk_index < q.chunk_index
                       \/ (r.chunk_index = q.chunk_index /\ r.id <= q.id)
         IN <<m.content>> \o OrderByChunkIndex(rows \ {m})

SelectChunks(cs, docId) ==
    OrderByChunkIndex({cs[i] : i \in {j \in 1..Len(cs) : cs[j].document_id = docId}})

\* UNIQUE (document_id, chunk_index) of file_chunks.
ChunkKeyFree(cs, docId, i) ==
    \A j \in 1..Len(cs) : ~(cs[j].document_id = docId /\ cs[j].chunk_index = i)

\* Variant: the UPDATE without its WHERE clause.
UpdateEveryTask(ts, progress, message, error, status, id) ==
    [i \in 1..Len(ts) |->
        [ts[i] EXCEPT !.progress = progress,
                      !.message = IF message # None THEN message ELSE @,
                      !.error = IF error # None THEN error ELSE @,
                      !.status = IF status # None THEN status[1] ELSE @]]

\* Variant: progress is coalesced like the other columns.
UpdateTaskProgressCoalesced(ts, progress, message, error, status, id) ==
    [i \in 1..Len(ts) |->
        IF ts[i].id = id
        THEN [ts[i] EXCEPT !.progress = Coalesce(progress, @),
                           !.message = Coalesce(message, @),
                           !.error = Coalesce(error, @),
                           !.status = Coalesce(status, Some(@))[1]]
        ELSE ts[i]]

\* Variant: INSERT OR REPLACE in place of UPDATE, the row is written anew
\* and its created_at with it.
UpdateTaskProgressReplace(ts, progress, message, error, status, id) ==
    [i \in 1..Len(ts) |->
        IF ts[i].id = id
        THEN [ts[i] EXCEPT !.progress = progress,
                           !.message = Coalesce(message, @),
                           !.error = Coalesce(error, @),
                           !.status = Coalesce(status, Some(@))[1],
                           !.created_at = 0]
        ELSE ts[i]]

\* UPDATE tasks SET progress = ?, message = COALESCE(?, message),
\*   error = COALESCE(?, error), status = COALESCE(?, status) WHERE id = ?
\* (updated_at, which the statement also sets, is not a column of the model).
UpdateTaskProgress(ts, progress, message, error, status, id) ==
    [i \in 1..Len(ts) |->
        IF ts[i].id = id
        THEN [ts[i] EXCEPT !.progress = progress,
                           !.message = Coalesce(message, @),
                           !.error = Coalesce(error, @),
                           !.status = Coalesce(status, Some(@))[1]]
        ELSE ts[i]]

\* updateResult.meta.changes
Changes(ts, id) == Cardinality({i \in 1..Len(ts) : ts[i].id = id})

-----------------------------------------------------------------------------
(* Requests and responses *)

\* A request as the handlers see it after request.json() / request.formData().
NoRequest ==
    [kind |-> "none",
     sources |-> [type |-> "undefined", items |-> <<>>],
     model |-> None, files |-> <<>>, format |-> None,
     taskId |-> None, hasProgress |-> FALSE, progress |-> None,
     message |-> None, error |-> None, status |-> None]

\* The JSON body of a response together with its HTTP status code.
NoResponse ==
    [code |-> 0, error |-> None, message |-> None, task_id |-> 0,
     status |-> "", progress |-> None, hasResult |-> FALSE,
     document_id |-> 0, pages |-> 0, format |-> "", content |-> None,
     success |-> FALSE]

\* { error: <text> } with status 400 or 404: the body has no message field.
ErrorResponse(code, text) ==
    [NoResponse EXCEPT !.code = code, !.error = Some(text)]

\* The catch block of a handler: { error, message: error.message }, status 500.
CatchResponse(text) ==
    [NoResponse EXCEPT !.code = 500, !.error = Some(text),
                       !.message = Some("D1_ERROR")]

\* fileSizeInMB > MAX_FILE_SIZE_MB with fileSizeInMB = file.size / (1024 * 1024);
\* the division by a power of two is exact, so the test is on bytes.
FileTooLarge(file) == file.size > MAX_FILE_SIZE_MB * (1024 * 1024)

\* !data.sources || !Array.isArray(data.sources) || data.sources.length === 0
InvalidSources(r) ==
    r.sources.type # "array" \/ Len(r.sources.items) = 0

\* typeof source === 'string' ? source : source.url
SourceUrl(source) == source.url

\* formData.get('model') || env.DEFAULT_MODEL || 'gpt-4o-mini'
ModelName(r) == OrElse(r.model, DefaultModelName)

\* options.format || 'json'
Format(r) == OrElse(r.format, "json")

\* crypto.randomUUID() for a vectorizer row about to be inserted.
FreshVectorizerId(vs) == Len(vs) + 1

\* JSON.stringify({source: 'url'}): sixteen characters, none of them a
\* character of an uploaded text.
UrlContent == [i \in 1..16 |-> 0]

\* Variant: the inline content is never taken.
ContentFieldAbsent(content) == None

\* content ? { text: content } : undefined  (the empty string is falsy)
ContentField(content) ==
    IF content # None /\ Len(content[1]) > 0 THEN content ELSE None

\* The error text of each handler's catch block.
CatchText(kind) ==
    CASE kind = "file" -> "Failed to process files"
      [] kind = "poll" -> "Failed to get task status"
      [] kind = "result" -> "Failed to get task result"
      [] kind = "progress" -> "Failed to update progress"
      [] OTHER -> "Failed to process request"

\* Variant: the result always reports one page.
SourceResponseOnePage(r, request) ==
    [NoResponse EXCEPT !.code = 200, !.task_id = r, !.status = "completed",
        !.message = Some("Document conversion started"), !.hasResult = TRUE,
        !.document_id = r, !.pages = 1, !.format = "json"]

SourceResponse(r, request) ==
    [NoResponse EXCEPT !.code = 200, !.task_id = r, !.status = "completed",
        !.message = Some("Document conversion started"), !.hasResult = TRUE,
        !.document_id = r, !.pages = Len(request.sources.items),
        !.format = "json"]

\* Variant: the result reports one page whatever the number of files.
FileResponseOnePage(r, request) ==
    [NoResponse EXCEPT !.code = 200, !.task_id = r, !.status = "completed",
        !.message = Some("Files processed successfully"), !.hasResult = TRUE,
        !.document_id = r, !.pages = 1, !.format = Format(request)]

FileResponse(r, request) ==
    [NoResponse EXCEPT !.code = 200, !.task_id = r, !.status = "completed",
        !.message = Some("Files processed successfully"), !.hasResult = TRUE,
        !.document_id = r, !.pages = Len(request.files),
        !.format = Format(request)]

AsyncResponse(r) ==
    [NoResponse EXCEPT !.code = 200, !.task_id = r, !.status = "pending",
        !.message = Some("Document conversion queued")]

\* Variant: every task is reported as completed.
PollResponseCompleted(task) ==
    [NoResponse EXCEPT !.code = 200, !.task_id = task.id,
        !.status = "completed", !.message = task.message,
        !.progress = task.progress, !.error = task.error]

PollResponse(task) ==
    [NoResponse EXCEPT !.code = 200, !.task_id = task.id,
        !.status = task.status, !.message = task.message,
        !.progress = task.progress, !.error = task.error]

ResultResponse(j, content) ==
    [NoResponse EXCEPT !.code = 200, !.task_id = j.task.id,
        !.status = j.task.status, !.message = j.task.message,
        !.progress = j.task.progress, !.error = j.task.error,
        !.hasResult = TRUE, !.document_id = j.doc.id, !.pages = j.doc.pages,
        !.format = j.doc.format, !.content = ContentField(content)]

ProgressResponse(request) ==
    [NoResponse EXCEPT !.code = 200, !.success = TRUE,
        !.task_id = request.taskId[1], !.progress = request.progress]

-----------------------------------------------------------------------------
(* Steps of a handler *)

Goto(r, label) == pc' = [pc EXCEPT ![r] = label]

Respond(r, response) ==
    /\ pc' = [pc EXCEPT ![r] = "done"]
    /\ resp' = [resp EXCEPT ![r] = response]

\* Where router.handle takes a parsed request: the validation of the matched
\* handler either answers at once or reaches the handler's first statement.
Rejection(request) ==
    CASE request.kind \in {"source", "async"} /\ InvalidSources(request)
            -> ErrorResponse(400, "Invalid sources provided")
      [] request.kind = "file" /\ Len(request.files) = 0
            -> ErrorResponse(400, "No files provided")
      [] request.kind = "file" /\ Len(request.files) > 0
                               /\ FileTooLarge(request.files[1])
            -> ErrorResponse(400, "File size exceeds the 5 MB limit")
      [] request.kind = "progress"
           /\ (request.taskId = None \/ ~request.hasProgress)
            -> ErrorResponse(400, "Invalid progress data")
      [] OTHER -> NoResponse

FirstStatement(kind) ==
    CASE kind = "source" -> "source_document"
      [] kind = "file" -> "file_document"
      [] kind = "async" -> "async_select"
      [] kind = "poll" -> "poll_select"
      [] kind = "result" -> "result_join"
      [] kind = "progress" -> "progress_update"

\* The handler of r has not answered yet, or its bootstrap run has not ended.
InFlight(r) == pc[r] \notin {"idle", "done"} \/ bpc[r] \in {"select", "insert"}

\* fetch(): a request arrives.  An OPTIONS request is answered before
\* anything else runs; every other request launches ensureDefaultVectorizer
\* (ctx.waitUntil) and then enters its handler.
Fetch(r, request) ==
    /\ r = started + 1
    /\ r <= MaxRequests
    /\ Cardinality({q \in RequestIds : InFlight(q)}) < MaxConcurrent
    /\ started' = r
    /\ req' = [req EXCEPT ![r] = request]
    /\ IF request.kind = "options"
       THEN /\ Respond(r, [NoResponse EXCEPT !.code = 200])
            /\ UNCHANGED bpc
       ELSE /\ bpc' = [bpc EXCEPT ![r] = "select"]
            /\ IF Rejection(request) # NoResponse
               THEN Respond(r, Rejection(request))
               ELSE Goto(r, FirstStatement(request.kind)) /\ UNCHANGED resp
    /\ UNCHANGED <<tables, locals, failures, workload>>

\* A D1 statement may throw: statements throw in the behaviours of the
\* "faults" workload, at most MaxFailures of them in a behaviour.
MayThrow == workload = "faults" /\ failures < MaxFailures

\* Variant: the catch block also removes the rows its request has written.
HandlerFailsUndo(r) ==
    /\ pc[r] \notin {"idle", "done"}
    /\ MayThrow
    /\ failures' = failures + 1
    /\ Respond(r, CatchResponse(CatchText(req[r].kind)))
    /\ documents' = SelectSeq(documents, LAMBDA row : row.id # r)
    /\ tasks' = SelectSeq(tasks, LAMBDA row : row.id # r)
    /\ sources' = SelectSeq(sources, LAMBDA row : row.document_id # r)
    /\ file_chunks' = SelectSeq(file_chunks, LAMBDA row : row.document_id # r)
    /\ UNCHANGED <<vectorizers, locals, started, req, bpc, workload>>

\* A D1 statement of the handler throws: the catch block answers 500.
HandlerFails(r) ==
    /\ pc[r] \notin {"idle", "done"}
    /\ MayThrow
    /\ failures' = failures + 1
    /\ Respond(r, CatchResponse(CatchText(req[r].kind)))
    /\ UNCHANGED <<tables, locals, started, req, bpc, workload>>

\* Variant: the document INSERT is skipped and the handler carries on.
SourceSkipDocument(r) ==
    /\ pc[r] = "source_document"
    /\ pc' = [pc EXCEPT ![r] = "source_task"]
    /\ UNCHANGED <<tables, locals, started, req, resp, bpc, failures, workload>>

(* POST /v1alpha/convert/source *)
SourceInsertDocument(r) ==
    /\ pc[r] = "source_document"
    /\ documents' = Append(documents,
          DocumentRow(r, "url-document", "json", Len(req[r].sources.items),
                      Some(UrlContent), None))
    /\ Goto(r, "source_task")
    /\ UNCHANGED <<tasks, sources, file_chunks, vectorizers, locals,
                   started, req, resp, bpc, failures, workload>>

SourceInsertTask(r) ==
    /\ pc[r] = "source_task"
    /\ tasks' = Append(tasks,
          TaskRow(r, "completed", r, "Document conversion started"))
    /\ Goto(r, "source_sources")
    /\ UNCHANGED <<documents, sources, file_chunks, vectorizers, locals,
                   started, req, resp, bpc, failures, workload>>

\* Variant: a URL the document already has is not stored again.
InsertSourceOnce(r, at, response) ==
    /\ pc[r] = at
    /\ LET url == SourceUrl(req[r].sources.items[idx[r] + 1])
       IN sources' =
            IF \E i \in 1..Len(sources) :
                  sources[i].document_id = r /\ sources[i].url = url
            THEN sources
            ELSE Append(sources, SourceRow(Len(sources) + 1, r, url))
    /\ idx' = [idx EXCEPT ![r] = @ + 1]
    /\ IF idx[r] + 1 < Len(req[r].sources.items)
       THEN UNCHANGED <<pc, resp>>
       ELSE Respond(r, response)
    /\ UNCHANGED <<documents, tasks, file_chunks, vectorizers,
                   vectorizerId, existing, joined, started, req, bpc, failures, workload>>

\* One iteration of `for (const source of data.sources)`.
InsertSource(r, at, response) ==
    /\ pc[r] = at
    /\ sources' = Append(sources,
          SourceRow(Len(sources) + 1, r,
                    SourceUrl(req[r].sources.items[idx[r] + 1])))
    /\ idx' = [idx EXCEPT ![r] = @ + 1]
    /\ IF idx[r] + 1 < Len(req[r].sources.items)
       THEN UNCHANGED <<pc, resp>>
       ELSE Respond(r, response)
    /\ UNCHANGED <<documents, tasks, file_chunks, vectorizers,
                   vectorizerId, existing, joined, started, req, bpc, failures, workload>>

SourceInsertSource(r) ==
    InsertSource(r, "source_sources", SourceResponse(r, req[r]))

(* The vectorizer get-or-create that the file and async handlers share *)
SelectVectorizerStep(r, at, found, missing) ==
    /\ pc[r] = at
    /\ LET existingVectorizer == SelectVectorizer(vectorizers, ModelName(req[r]))
       IN IF existingVectorizer # None
          THEN /\ vectorizerId' = [vectorizerId EXCEPT ![r] = existingVectorizer[1].id]
               /\ existing' = [existing EXCEPT ![r] = TRUE]
               /\ Goto(r, found)
          ELSE /\ existing' = [existing EXCEPT ![r] = FALSE]
               /\ Goto(r, missing)
               /\ UNCHANGED vectorizerId
    /\ UNCHANGED <<tables, idx, joined, started, req, resp, bpc, failures, workload>>

InsertVectorizerStep(r, at, next) ==
    /\ pc[r] = at
    /\ vectorizerId' = [vectorizerId EXCEPT ![r] = FreshVectorizerId(vectorizers)]
    /\ vectorizers' = InsertVectorizer(vectorizers, vectorizerId'[r],
                                       ModelName(req[r]), "easyocr")
    /\ Goto(r, next)
    /\ UNCHANGED <<documents, tasks, sources, file_chunks, idx, existing, joined,
                   started, req, resp, bpc, failures, workload>>

\* Variant: the content is stored inline whatever its length.
FileInsertDocumentInline(r) ==
    /\ pc[r] = "file_document"
    /\ LET file == req[r].files[1]
           contentText == file.text
       IN /\ documents' = Append(documents,
                DocumentRow(r, file.name, Format(req[r]), Len(req[r].files),
                    Some(contentText), None))
          /\ IF Len(contentText) > CHUNK_SIZE_TOKENS
             THEN Goto(r, "file_chunks")
             ELSE Goto(r, "file_task")
    /\ UNCHANGED <<tasks, sources, file_chunks, vectorizers, locals,
                   started, req, resp, bpc, failures, workload>>

(* POST /v1alpha/convert/file *)
FileInsertDocument(r) ==
    /\ pc[r] = "file_document"
    /\ LET file == req[r].files[1]
           contentText == file.text
       IN /\ documents' = Append(documents,
                DocumentRow(r, file.name, Format(req[r]), Len(req[r].files),
                    IF Len(contentText) <= CHUNK_SIZE_TOKENS
                    THEN Some(contentText) ELSE None,
                    None))
          /\ IF Len(contentText) > CHUNK_SIZE_TOKENS
             THEN Goto(r, "file_chunks")
             ELSE Goto(r, "file_task")
    /\ UNCHANGED <<tasks, sources, file_chunks, vectorizers, locals,
                   started, req, resp, bpc, failures, workload>>

\* One iteration of `for (let i = 0; i < chunks; i++)`.
FileInsertChunk(r) ==
    /\ pc[r] = "file_chunks"
    /\ LET contentText == req[r].files[1].text
           chunks == Ceil(Len(contentText), CHUNK_SIZE_TOKENS)
           i == idx[r]
           start == i * CHUNK_SIZE_TOKENS
           end == Min((i + 1) * CHUNK_SIZE_TOKENS, Len(contentText))
           chunk == Substring(contentText, start, end)
       IN /\ ChunkKeyFree(file_chunks, r, i)
          /\ file_chunks' = Append(file_chunks,
                ChunkRow(Len(file_chunks) + 1, r, i, chunk))
          /\ idx' = [idx EXCEPT ![r] = i + 1]
          /\ IF i + 1 < chunks THEN UNCHANGED pc ELSE Goto(r, "file_task")
    /\ UNCHANGED <<documents, tasks, sources, vectorizers,
                   vectorizerId, existing, joined, started, req, resp, bpc,
                   failures, workload>>

FileInsertTask(r) ==
    /\ pc[r] = "file_task"
    /\ tasks' = Append(tasks,
          TaskRow(r, "completed", r, "Files processed successfully"))
    /\ Goto(r, "file_select")
    /\ UNCHANGED <<documents, sources, file_chunks, vectorizers, locals,
                   started, req, resp, bpc, failures, workload>>

FileSelectVectorizer(r) ==
    SelectVectorizerStep(r, "file_select", "file_link", "file_vectorizer")

FileInsertVectorizer(r) ==
    InsertVectorizerStep(r, "file_vectorizer", "file_link")

FileLinkDocument(r) ==
    /\ pc[r] = "file_link"
    /\ documents' = UpdateDocumentVectorizer(documents, vectorizerId[r], r)
    /\ Respond(r, FileResponse(r, req[r]))
    /\ UNCHANGED <<tasks, sources, file_chunks, vectorizers, locals,
                   started, req, bpc, failures, workload>>

(* POST /v1alpha/convert/source/async *)
AsyncSelectVectorizer(r) ==
    SelectVectorizerStep(r, "async_select", "async_document", "async_vectorizer")

AsyncInsertVectorizer(r) ==
    InsertVectorizerStep(r, "async_vectorizer", "async_document")

AsyncInsertDocument(r) ==
    /\ pc[r] = "async_document"
    /\ documents' = Append(documents,
          DocumentRow(r, "async-document", "json", Len(req[r].sources.items),
                      None, Some(vectorizerId[r])))
    /\ Goto(r, "async_task")
    /\ UNCHANGED <<tasks, sources, file_chunks, vectorizers, locals,
                   started, req, resp, bpc, failures, workload>>

AsyncInsertTask(r) ==
    /\ pc[r] = "async_task"
    /\ tasks' = Append(tasks,
          TaskRow(r, "pending", r, "Document conversion queued"))
    /\ Goto(r, "async_sources")
    /\ UNCHANGED <<documents, sources, file_chunks, vectorizers, locals,
                   started, req, resp, bpc, failures, workload>>

AsyncInsertSource(r) ==
    InsertSource(r, "async_sources", AsyncResponse(r))

(* GET /v1alpha/status/poll/:taskId *)
PollSelectTask(r) ==
    /\ pc[r] = "poll_select"
    /\ LET taskResult == SelectTask(tasks, req[r].taskId[1])
       IN IF taskResult = None
          THEN Respond(r, ErrorResponse(404, "Task not found"))
          ELSE Respond(r, PollResponse(taskResult[1]))
    /\ UNCHANGED <<tables, locals, started, req, bpc, failures, workload>>

(* GET /v1alpha/result/:taskId *)
ResultJoin(r) ==
    /\ pc[r] = "result_join"
    /\ LET task == JoinTaskDocument(tasks, documents, req[r].taskId[1])
       IN IF task = None
          THEN /\ Respond(r, ErrorResponse(404, "Task or document not found"))
               /\ UNCHANGED joined
          ELSE IF ContentField(task[1].doc.content) = None
               THEN /\ joined' = [joined EXCEPT ![r] = task]
                    /\ Goto(r, "result_chunks")
                    /\ UNCHANGED resp
               ELSE /\ Respond(r, ResultResponse(task[1], task[1].doc.content))
                    /\ UNCHANGED joined
    /\ UNCHANGED <<tables, idx, vectorizerId, existing, started, req, bpc,
                   failures, workload>>

ResultSelectChunks(r) ==
    /\ pc[r] = "result_chunks"
    /\ LET task == joined[r][1]
           chunks == SelectChunks(file_chunks, task.doc.id)
           content == IF Len(chunks) > 0 THEN Some(Join(chunks))
                      ELSE task.doc.content
       IN Respond(r, ResultResponse(task, content))
    /\ UNCHANGED <<tables, locals, started, req, bpc, failures, workload>>

(* POST /v1alpha/callback/task/progress *)
ProgressUpdate(r) ==
    /\ pc[r] = "progress_update"
    /\ LET data == req[r]
           id == data.taskId[1]
       IN /\ tasks' = UpdateTaskProgress(tasks, data.progress,
                          OrNull(data.message), OrNull(data.error),
                          OrNull(data.status), id)
          /\ IF Changes(tasks, id) = 0
             THEN Respond(r, ErrorResponse(404, "Task not found"))
             ELSE Respond(r, ProgressResponse(data))
    /\ UNCHANGED <<documents, sources, file_chunks, vectorizers, locals,
                   started, req, bpc, failures, workload>>

(* ensureDefaultVectorizer *)
BootstrapSelect(r) ==
    /\ bpc[r] = "select"
    /\ bpc' = [bpc EXCEPT ![r] =
                 IF SelectVectorizer(vectorizers, DefaultModelName) = None
                 THEN "insert" ELSE "done"]
    /\ UNCHANGED <<tables, locals, started, pc, req, resp, failures, workload>>

BootstrapInsert(r) ==
    /\ bpc[r] = "insert"
    /\ vectorizers' = InsertVectorizer(vectorizers, FreshVectorizerId(vectorizers),
                                       DefaultModelName, "easyocr")
    /\ bpc' = [bpc EXCEPT ![r] = "done"]
    /\ UNCHANGED <<documents, tasks, sources, file_chunks, locals,
                   started, pc, req, resp, failures, workload>>

\* Variant: a throwing bootstrap statement also fails the request.
BootstrapFailsRequest(r) ==
    /\ bpc[r] \in {"select", "insert"}
    /\ MayThrow
    /\ failures' = failures + 1
    /\ bpc' = [bpc EXCEPT ![r] = "failed"]
    /\ Respond(r, CatchResponse(CatchText(req[r].kind)))
    /\ UNCHANGED <<tables, locals, started, req, workload>>

\* A statement of the bootstrap throws: the catch block logs and returns.
BootstrapFails(r) ==
    /\ bpc[r] \in {"select", "insert"}
    /\ MayThrow
    /\ failures' = failures + 1
    /\ bpc' = [bpc EXCEPT ![r] = "failed"]
    /\ UNCHANGED <<tables, locals, started, pc, req, resp, workload>>

-----------------------------------------------------------------------------
(* The requests a behaviour draws from *)

\* An uploaded text of n characters, all distinct.
Text(n) == [i \in 1..n |-> i]

ContentLengths ==
    {0, CHUNK_SIZE_TOKENS - 1, CHUNK_SIZE_TOKENS, CHUNK_SIZE_TOKENS + 1,
     2 * CHUNK_SIZE_TOKENS + 1, 10 * CHUNK_SIZE_TOKENS + 7}

MaxFileSizeBytes == MAX_FILE_SIZE_MB * (1024 * 1024)

File(name, size, text) == [name |-> name, size |-> size, text |-> text]

\* An entry of data.sources: a plain string, or { url, headers }.
StringSource(u) == [isString |-> TRUE, url |-> u, headers |-> None]
ObjectSource(u) == [isString |-> FALSE, url |-> u, headers |-> Some("h")]
ArrayOf(items) == [type |-> "array", items |-> items]

UrlA == "https://a/b.pdf"
UrlB == "https://c/d.pdf"

SourceInputs ==
    { [type |-> "undefined", items |-> <<>>],
      [type |-> "other", items |-> <<>>],
      ArrayOf(<<>>),
      ArrayOf(<<StringSource(UrlA)>>),
      ArrayOf(<<StringSource(UrlA), StringSource(UrlA)>>),
      ArrayOf(<<StringSource(UrlB), ObjectSource(UrlA)>>) }

Models == {None, Some("m2")}

FileLists ==
    { <<>> }
    \cup { <<File("a.txt", n, Text(n))>> : n \in ContentLengths }
    \cup { <<File("max.txt", MaxFileSizeBytes, Text(1))>>,
           <<File("big.txt", MaxFileSizeBytes + 1, Text(1))>>,
           <<File("a.txt", 1, Text(1)), File("b.txt", 3, Text(3))>>,
           <<File("a.txt", 1, Text(1)),
             File("big.txt", MaxFileSizeBytes + 1, Text(1))>> }

OptionsRequest == [NoRequest EXCEPT !.kind = "options"]
SourceRequest(src) == [NoRequest EXCEPT !.kind = "source", !.sources = src]
AsyncRequest(src, model) ==
    [NoRequest EXCEPT !.kind = "async", !.sources = src, !.model = model]
FileRequest(files, model, format) ==
    [NoRequest EXCEPT !.kind = "file", !.files = files, !.model = model,
                      !.format = format]
PollRequest(t) == [NoRequest EXCEPT !.kind = "poll", !.taskId = Some(t)]
ResultRequest(t) == [NoRequest EXCEPT !.kind = "result", !.taskId = Some(t)]
ProgressRequest(t, hasProgress, progress, message, error, status) ==
    [NoRequest EXCEPT !.kind = "progress", !.taskId = t,
        !.hasProgress = hasProgress, !.progress = progress,
        !.message = message, !.error = error, !.status = status]

\* Progress bodies.  progress is missing (hasProgress = FALSE), null or a
\* number; message, error and status are missing, empty or given.
FieldChoices ==
    { <<m, None, None>> : m \in {None, Some(""), Some("half way")} }
    \cup { <<None, Some("boom"), None>>, <<None, None, Some("")>>,
           <<None, None, Some("processing")>>,
           <<Some("half way"), Some("boom"), Some("processing")>> }

ProgressRequests ==
    { ProgressRequest(Some(1), TRUE, p, f[1], f[2], f[3]) :
        p \in {None, Some(50)}, f \in FieldChoices }
    \cup { ProgressRequest(Some(2), TRUE, Some(50), f[1], f[2], f[3]) :
        f \in { <<None, None, None>>,
                <<Some("half way"), Some("boom"), Some("processing")>> } }
    \cup { ProgressRequest(None, TRUE, Some(50), None, None, None),
           ProgressRequest(Some(1), FALSE, None, None, None, None),
           ProgressRequest(Some(1), FALSE, None, Some("half way"), None,
                           Some("processing")) }

\* The bodies of the spec's update scenario: a status with the progress
\* missing, null or given.
CompletionRequests ==
    { ProgressRequest(Some(1), FALSE, None, None, None, Some("completed")),
      ProgressRequest(Some(1), TRUE, None, None, None, Some("completed")),
      ProgressRequest(Some(1), TRUE, Some(50), None, None, Some("completed")),
      ProgressRequest(Some(1), TRUE, Some(100), None, None, Some("completed")) }

\* Scenario C's callback, a callback whose status is none of the four task
\* statuses, and a second ingestion (its task is the one a later callback
\* names).
ScenarioRequests ==
    { ProgressRequest(Some(1), TRUE, Some(100), None, None, Some("completed")),
      ProgressRequest(Some(1), TRUE, Some(50), None, None, Some("archived")),
      SourceRequest(ArrayOf(<<StringSource(UrlA)>>)) }

\* Callbacks that name the task of the second request; the second one moves
\* it to processing with a progress beyond 100.
OtherTaskRequests ==
    { ProgressRequest(Some(2), TRUE, Some(50), None, None, Some("completed")),
      ProgressRequest(Some(2), TRUE, Some(150), None, None, Some("processing")) }

\* A callback whose message, error and status are all the empty string.
EmptyFieldRequests ==
    { ProgressRequest(Some(1), TRUE, Some(50), Some(""), Some(""), Some("")) }

Readers == { PollRequest(1), ResultRequest(1), ResultRequest(2) }

\* The ingestions during which a statement may throw: a chunked upload, a
\* URL-sync request of two sources and a URL-async request.
FaultyIngestions ==
    { FileRequest(<<File("a.txt", 2 * CHUNK_SIZE_TOKENS + 1,
                         Text(2 * CHUNK_SIZE_TOKENS + 1))>>, None, None),
      SourceRequest(ArrayOf(<<StringSource(UrlB), ObjectSource(UrlA)>>)),
      AsyncRequest(ArrayOf(<<StringSource(UrlA)>>), None) }

\* What follows them: another ingestion or a callback, then a retrieval.
FaultyFollowers ==
    { AsyncRequest(ArrayOf(<<StringSource(UrlA)>>), None),
      ProgressRequest(Some(1), TRUE, Some(50), None, None, Some("processing")) }

Workloads == {"ingest", "content", "urls", "tasks", "faults"}

\* The requests that may arrive as the r-th request of a workload.
Menu(w, r) ==
    CASE w = "ingest" ->
            IF r <= 2
            THEN { AsyncRequest(ArrayOf(<<StringSource(UrlA)>>), m) : m \in Models }
                 \cup { FileRequest(<<File("a.txt", 1, Text(1))>>, m, None) : m \in Models }
            ELSE { ResultRequest(2), OptionsRequest }
      [] w = "content" ->
            IF r = 1
            THEN { FileRequest(fs, None, f) : fs \in FileLists, f \in {None, Some("md")} }
            ELSE Readers
      [] w = "urls" ->
            IF r = 1
            THEN { SourceRequest(src) : src \in SourceInputs }
                 \cup { AsyncRequest(src, None) : src \in SourceInputs }
            ELSE Readers
      [] w = "tasks" ->
            IF r = 1
            THEN { AsyncRequest(ArrayOf(<<StringSource(UrlA)>>), None) }
            ELSE IF r = 2 THEN ProgressRequests \cup ScenarioRequests
            ELSE CompletionRequests \cup OtherTaskRequests
                 \cup EmptyFieldRequests \cup Readers
      [] w = "faults" ->
            IF r = 1 THEN FaultyIngestions
            ELSE IF r = 2 THEN FaultyFollowers
            ELSE { ResultRequest(1) }

-----------------------------------------------------------------------------
Init ==
    /\ documents = <<>>
    /\ tasks = <<>>
    /\ sources = <<>>
    /\ file_chunks = <<>>
    /\ vectorizers = <<>>
    /\ started = 0
    /\ pc = [r \in RequestIds |-> "idle"]
    /\ req = [r \in RequestIds |-> NoRequest]
    /\ resp = [r \in RequestIds |-> NoResponse]
    /\ idx = [r \in RequestIds |-> 0]
    /\ vectorizerId = [r \in RequestIds |-> 0]
    /\ existing = [r \in RequestIds |-> FALSE]
    /\ joined = [r \in RequestIds |-> None]
    /\ bpc = [r \in RequestIds |-> "none"]
    /\ failures = 0
    /\ workload \in Workloads

Next ==
    \E r \in RequestIds :
        \/ \E request \in Menu(workload, r) : Fetch(r, request)
        \/ HandlerFails(r)
        \/ SourceInsertDocument(r)
        \/ SourceInsertTask(r)
        \/ SourceInsertSource(r)
        \/ FileInsertDocument(r)
        \/ FileInsertChunk(r)
        \/ FileInsertTask(r)
        \/ FileSelectVectorizer(r)
        \/ FileInsertVectorizer(r)
        \/ FileLinkDocument(r)
        \/ AsyncSelectVectorizer(r)
        \/ AsyncInsertVectorizer(r)
        \/ AsyncInsertDocument(r)
        \/ AsyncInsertTask(r)
        \/ AsyncInsertSource(r)
        \/ PollSelectTask(r)
        \/ ResultJoin(r)
        \/ ResultSelectChunks(r)
        \/ ProgressUpdate(r)
        \/ BootstrapSelect(r)
        \/ BootstrapInsert(r)
        \/ BootstrapFails(r)

Spec == Init /\ [][Next]_vars

-----------------------------------------------------------------------------
(* Executions in which get-or-create calls do not overlap: while a handler  *)
(* or a bootstrap run is between its SELECT on vectorizers and the INSERT   *)
(* that the SELECT called for, no other run takes a step.                   *)
HandlerInGetOrCreate(r) == pc[r] \in {"file_vectorizer", "async_vectorizer"}
BootstrapInGetOrCreate(r) == bpc[r] = "insert"

HandlerMayStep(r) ==
    /\ \A q \in RequestIds \ {r} : ~HandlerInGetOrCreate(q)
    /\ \A q \in RequestIds : ~BootstrapInGetOrCreate(q)

BootstrapMayStep(r) ==
    /\ \A q \in RequestIds : ~HandlerInGetOrCreate(q)
    /\ \A q \in RequestIds \ {r} : ~BootstrapInGetOrCreate(q)

NextSeq ==
    \E r \in RequestIds :
        \/ /\ HandlerMayStep(r)
           /\ \/ \E request \in Menu(workload, r) : Fetch(r, request)
              \/ HandlerFails(r)
              \/ SourceInsertDocument(r)
              \/ SourceInsertTask(r)
              \/ SourceInsertSource(r)
              \/ FileInsertDocument(r)
              \/ FileInsertChunk(r)
              \/ FileInsertTask(r)
              \/ FileSelectVectorizer(r)
              \/ FileInsertVectorizer(r)
              \/ FileLinkDocument(r)
              \/ AsyncSelectVectorizer(r)
              \/ AsyncInsertVectorizer(r)
              \/ AsyncInsertDocument(r)
              \/ AsyncInsertTask(r)
              \/ AsyncInsertSource(r)
              \/ PollSelectTask(r)
              \/ ResultJoin(r)
              \/ ResultSelectChunks(r)
              \/ ProgressUpdate(r)
        \/ /\ BootstrapMayStep(r)
           /\ \/ BootstrapSelect(r)
              \/ BootstrapInsert(r)
              \/ BootstrapFails(r)

SpecSeq == Init /\ [][NextSeq]_vars

-----------------------------------------------------------------------------
(* Properties *)

RowsForModel(m) == {i \in 1..Len(vectorizers) : vectorizers[i].model_name = m}

\* The handler of r is an ingestion that has obtained its vectorizer id.
ObtainedVectorizer(r) ==
    req[r].kind \in {"file", "async"} /\ vectorizerId[r] # 0

\* C1: in every reachable state the vectorizers relation holds at most one
\* row per model_name.
C1_OneRowPerModelName ==
    \A i, j \in 1..Len(vectorizers) :
        vectorizers[i].model_name = vectorizers[j].model_name => i = j

\* C2: ingestion requests that run get-or-create for the same model name
\* while it has no vectorizer row (each one's lookup found none) obtain one
\* agreed vectorizer id, and the documents they created carry that same id.
C2_ConcurrentCreatorsAgree ==
    \A p, q \in RequestIds :
        ( /\ ObtainedVectorizer(p) /\ ObtainedVectorizer(q)
          /\ ~existing[p] /\ ~existing[q]
          /\ ModelName(req[p]) = ModelName(req[q]) )
        => /\ vectorizerId[p] = vectorizerId[q]
           /\ ( /\ HasId(documents, p) /\ HasId(documents, q)
                /\ RowById(documents, p).vectorizer_id # None
                /\ RowById(documents, q).vectorizer_id # None )
              => RowById(documents, p).vectorizer_id
                    = RowById(documents, q).vectorizer_id

\* C3: when get-or-create calls do not overlap, any two of them for the same
\* model name return the same vectorizer id and leave exactly one vectorizers
\* row for that model name.
C3_SequentialGetOrCreateIdempotent ==
    \A p, q \in RequestIds :
        ( /\ ObtainedVectorizer(p) /\ ObtainedVectorizer(q)
          /\ ModelName(req[p]) = ModelName(req[q]) )
        => /\ vectorizerId[p] = vectorizerId[q]
           /\ Cardinality(RowsForModel(ModelName(req[p]))) = 1

\* Two ingestions for the same model have both finished get-or-create: the
\* first created the row, the second found it.
C3_Witness ==
    \E p, q \in RequestIds :
        /\ p # q
        /\ ObtainedVectorizer(p) /\ ObtainedVectorizer(q)
        /\ ModelName(req[p]) = ModelName(req[q])
        /\ ~existing[p] /\ existing[q]
        /\ pc[p] = "done" /\ pc[q] = "done"

\* C4: once bootstrap runs have ended, none of them by a storage failure,
\* exactly one vectorizers row exists for the default model name.
C4_BootstrapLeavesOneDefaultRow ==
    ( /\ \E r \in RequestIds : bpc[r] = "done"
      /\ \A r \in RequestIds : bpc[r] \in {"none", "done"} )
    => Cardinality(RowsForModel(DefaultModelName)) = 1

\* The file-sync handler of r has stored its content: the task row is
\* inserted after the document row and the whole chunk loop.
FileStored(r) == req[r].kind = "file" /\ HasId(tasks, r)

UploadedText(r) == req[r].files[1].text

ChunkRowsOf(d) == {i \in 1..Len(file_chunks) : file_chunks[i].document_id = d}

\* The contents of d's chunk rows with chunk_index 0, 1, ..., n-1.
ChunksInIndexOrder(d, n) ==
    [k \in 1..n |->
        file_chunks[CHOOSE i \in ChunkRowsOf(d) :
                        file_chunks[i].chunk_index = k - 1].content]

\* C5: content stored by a file-sync ingestion and read back by result
\* retrieval is exactly the uploaded content, the empty content included.
C5_RoundTrip ==
    \A q \in RequestIds :
        ( /\ req[q].kind = "result" /\ resp[q].code = 200
          /\ req[req[q].taskId[1]].kind = "file" )
        => resp[q].content = Some(UploadedText(req[q].taskId[1]))

\* C6: once a file-sync ingestion has stored its content, the chunk rows of
\* its document have the chunk_index values 0..n-1, each once, and the rows
\* (when the content was stored in chunks) concatenated in ascending
\* chunk_index order are the uploaded content.
C6_ChunksReassemble ==
    \A r \in RequestIds :
        FileStored(r) =>
            LET n == Cardinality(ChunkRowsOf(r))
            IN /\ {file_chunks[i].chunk_index : i \in ChunkRowsOf(r)} = 0..(n - 1)
               /\ n > 0 => Join(ChunksInIndexOrder(r, n)) = UploadedText(r)

\* A stored upload of 10T+7 characters, held in eleven or more chunk rows.
C6_Witness ==
    \E r \in RequestIds :
        /\ FileStored(r)
        /\ Len(UploadedText(r)) = 10 * CHUNK_SIZE_TOKENS + 7
        /\ Cardinality(ChunkRowsOf(r)) >= 11

\* C7: content of length L <= T is stored inline with no chunk row; content
\* of length L > T leaves the inline content absent and is stored in exactly
\* ceil(L/T) chunk rows of T characters each, the last one holding the rest.
C7_WriteSplitsByThreshold ==
    \A r \in RequestIds :
        FileStored(r) =>
            LET L == Len(UploadedText(r))
                T == CHUNK_SIZE_TOKENS
                n == Cardinality(ChunkRowsOf(r))
                doc == RowById(documents, r)
            IN IF L <= T
               THEN doc.content = Some(UploadedText(r)) /\ n = 0
               ELSE /\ doc.content = None
                    /\ (n - 1) * T < L /\ L <= n * T
                    /\ \A i \in ChunkRowsOf(r) :
                          Len(file_chunks[i].content) =
                             IF file_chunks[i].chunk_index = n - 1
                             THEN L - (n - 1) * T ELSE T

\* The scaled Scenario B: 2T+1 characters stored as chunks 0, 1, 2.
C7_Witness ==
    \E r \in RequestIds :
        /\ FileStored(r)
        /\ Len(UploadedText(r)) = 2 * CHUNK_SIZE_TOKENS + 1
        /\ RowById(documents, r).content = None
        /\ {file_chunks[i].chunk_index : i \in ChunkRowsOf(r)} = {0, 1, 2}

\* The handler of r, a progress callback, answers in this step and no
\* statement threw.
ProgressAnswered(r) ==
    /\ req'[r].kind = "progress"
    /\ pc[r] # "done" /\ pc'[r] = "done"
    /\ resp'[r].code # 500

Omitted(o) == o = None \/ o = Some("")
Kept(given, stored) == IF Omitted(given) THEN stored ELSE given

\* C8 as stated: every field the caller omits, progress included, keeps its
\* stored value, and the fields given are applied.
C8_CoalesceEveryField ==
    [][\A r \in RequestIds :
          ( /\ ProgressAnswered(r)
            /\ req'[r].taskId # None
            /\ HasId(tasks, req'[r].taskId[1]) )
          => LET data == req'[r]
                 old == RowById(tasks, data.taskId[1])
             IN RowById(tasks', data.taskId[1]) =
                  [old EXCEPT
                     !.progress = IF ~data.hasProgress \/ data.progress = None
                                  THEN @ ELSE data.progress,
                     !.message = Kept(data.message, @),
                     !.error = Kept(data.error, @),
                     !.status = Kept(data.status, Some(@))[1]]
      ]_vars

\* C8 amended: message, error and status keep their stored value when
\* omitted (or empty); progress is required and always replaces the stored
\* progress; a callback without progress or task_id writes nothing.
C8_CoalesceOptionalFields ==
    [][\A r \in RequestIds :
          ProgressAnswered(r) =>
             LET data == req'[r]
             IN IF resp'[r].code = 200
                THEN /\ data.hasProgress /\ data.taskId # None
                     /\ Len(tasks') = Len(tasks)
                     /\ \A i \in 1..Len(tasks) :
                          tasks'[i] =
                            IF tasks[i].id = data.taskId[1]
                            THEN [tasks[i] EXCEPT
                                    !.progress = data.progress,
                                    !.message = Kept(data.message, @),
                                    !.error = Kept(data.error, @),
                                    !.status = Kept(data.status, Some(@))[1]]
                            ELSE tasks[i]
                ELSE tasks' = tasks
      ]_vars

\* create(pending), an update that set progress 50, message and error, then
\* an update giving progress 50 and status completed only.
C8_Witness ==
    \E r \in RequestIds :
        /\ req[r].kind = "progress" /\ resp[r].code = 200
        /\ req[r].status = Some("completed") /\ req[r].message = None
        /\ req[r].progress = Some(50)
        /\ HasId(tasks, 1)
        /\ RowById(tasks, 1).status = "completed"
        /\ RowById(tasks, 1).progress = Some(50)
        /\ RowById(tasks, 1).message = Some("half way")
        /\ RowById(tasks, 1).error = Some("boom")

\* C9: a progress update for a task id that has no task row answers
\* NotFound (404) and leaves every row of every relation as it was.
C9_UpdateOfMissingTaskWritesNothing ==
    [][\A r \in RequestIds :
          ( /\ pc[r] = "progress_update" /\ pc'[r] = "done"
            /\ ~HasId(tasks, req[r].taskId[1]) )
          => /\ UNCHANGED tables
             /\ resp'[r].code = 404 \/ failures' # failures
      ]_vars

\* A progress update was answered 404 while another task row existed.
C9_Witness ==
    \E r \in RequestIds :
        /\ req[r].kind = "progress" /\ resp[r].code = 404
        /\ Len(tasks) > 0

\* C10: every task row's document_id is the id of a document row, also
\* after a statement of an ingestion flow has thrown.
C10_TaskReferencesDocument ==
    \A i \in 1..Len(tasks) : HasId(documents, tasks[i].document_id)

\* An ingestion failed after its task row was written.
C10_Witness ==
    \E r \in RequestIds :
        /\ req[r].kind \in {"source", "file", "async"}
        /\ resp[r].code = 500
        /\ HasId(tasks, r)

\* C11: in every reachable state a document whose vectorizer_id is set
\* references an existing vectorizers row, also after a statement has thrown.
C11_DocumentReferencesVectorizer ==
    \A i \in 1..Len(documents) :
        documents[i].vectorizer_id # None
            => HasId(vectorizers, documents[i].vectorizer_id[1])

\* A linked file document and an async document exist and a statement threw.
C11_Witness ==
    \E p, q \in RequestIds :
        /\ req[p].kind = "file" /\ req[q].kind = "async"
        /\ HasId(documents, p) /\ RowById(documents, p).vectorizer_id # None
        /\ HasId(documents, q) /\ RowById(documents, q).vectorizer_id # None
        /\ failures > 0

\* Missing, non-list or empty sources; a file request without a file.
InvalidInput(request) ==
    \/ request.kind \in {"source", "async"} /\ InvalidSources(request)
    \/ request.kind = "file" /\ Len(request.files) = 0

\* C12: a request with invalid input is answered 400, and no step of the
\* run that processes it (its handler, the bootstrap run that fetch launched
\* for it) writes a row to any of the five relations.
C12_InvalidInputWritesNothing ==
    [][\A r \in RequestIds :
          ( /\ InvalidInput(req'[r])
            /\ (pc'[r] # pc[r] \/ bpc'[r] # bpc[r]) )
          => /\ UNCHANGED tables
             /\ resp'[r].code = 400
      ]_vars

SomeFileTooLarge(request) ==
    \E i \in 1..Len(request.files) : FileTooLarge(request.files[i])

\* C13: a file-sync request that carries files is rejected as too large
\* exactly when one of its files exceeds the maximum, the handler of a
\* rejected request writes no row, and a request within the limit (a file of
\* exactly the maximum included) that is answered 200 has been ingested.
C13_RejectedExactlyWhenTooLarge ==
    [][\A r \in RequestIds :
          (req'[r].kind = "file" /\ Len(req'[r].files) > 0) =>
             /\ (pc[r] = "idle" /\ pc'[r] # "idle")
                  => /\ SomeFileTooLarge(req'[r])
                          <=> ( /\ pc'[r] = "done"
                                /\ resp'[r] = ErrorResponse(400,
                                       "File size exceeds the 5 MB limit") )
                     /\ UNCHANGED tables
             /\ (SomeFileTooLarge(req'[r]) /\ pc'[r] # pc[r])
                  => UNCHANGED tables
             /\ (~SomeFileTooLarge(req'[r]) /\ resp'[r].code = 200)
                  => HasId(documents', r) /\ HasId(tasks', r)
      ]_vars

\* A progress callback naming task t has been applied.
ProgressApplied(t) ==
    \E p \in RequestIds :
        /\ req[p].kind = "progress" /\ req[p].taskId = Some(t)
        /\ pc[p] = "done" /\ resp[p].code = 200

\* C14: a URL-sync ingestion of n >= 1 sources that answered 200 has created
\* one document with pages = n and format json and one task that references
\* it, completed (until a progress callback names it), and its response is
\* completed with result.pages = n and result.format = json.
C14_UrlSyncCreatesCompleted ==
    \A r \in RequestIds :
        (req[r].kind = "source" /\ resp[r].code = 200) =>
            LET n == Len(req[r].sources.items)
            IN /\ n >= 1
               /\ Cardinality({i \in 1..Len(documents) : documents[i].id = r}) = 1
               /\ RowById(documents, r).pages = n
               /\ RowById(documents, r).format = "json"
               /\ Cardinality({i \in 1..Len(tasks) : tasks[i].id = r}) = 1
               /\ RowById(tasks, r).document_id = r
               /\ RowById(tasks, r).status = "completed" \/ ProgressApplied(r)
               /\ resp[r].task_id = r /\ resp[r].status = "completed"
               /\ resp[r].hasResult /\ resp[r].document_id = r
               /\ resp[r].pages = n /\ resp[r].format = "json"

\* A URL-sync ingestion of two sources has answered.
C14_Witness ==
    \E r \in RequestIds :
        /\ req[r].kind = "source" /\ resp[r].code = 200
        /\ Len(req[r].sources.items) = 2
        /\ RowById(documents, r).pages = 2

\* The source rows of document d, in rowid order.
SourceRowsOf(d) == SelectSeq(sources, LAMBDA row : row.document_id = d)

\* C15: the source rows of a URL ingestion's document are, in insertion
\* order, the urls of the request's source list (a prefix of it while the
\* loop runs, the whole list once the request has answered 200): one row per
\* entry, duplicates kept, and of a structured entry only the url.
C15_OneSourceRowPerEntry ==
    \A r \in RequestIds :
        req[r].kind \in {"source", "async"} =>
            LET rows == SourceRowsOf(r)
                items == req[r].sources.items
            IN /\ Len(rows) <= Len(items)
               /\ \A k \in 1..Len(rows) :
                     /\ DOMAIN rows[k] = {"id", "document_id", "url"}
                     /\ rows[k].url = items[k].url
                     /\ k > 1 => rows[k - 1].id < rows[k].id
               /\ resp[r].code = 200 => Len(rows) = Len(items)

\* A list naming the same URL twice was ingested into two rows.
C15_Witness ==
    \E r \in RequestIds :
        /\ req[r].kind \in {"source", "async"} /\ resp[r].code = 200
        /\ Len(req[r].sources.items) = 2
        /\ req[r].sources.items[1].url = req[r].sources.items[2].url
        /\ Len(SourceRowsOf(r)) = 2

\* C16: the task row of a URL-async ingestion is inserted with status
\* pending, and the only step that changes the status of a pending one is
\* the UPDATE of a progress callback that names its task id.
C16_PendingUntilProgressUpdate ==
    [][\A t \in RequestIds :
          req[t].kind = "async" =>
             /\ (~HasId(tasks, t) /\ HasId(tasks', t))
                  => RowById(tasks', t).status = "pending"
             /\ ( /\ HasId(tasks, t)
                  /\ RowById(tasks, t).status = "pending"
                  /\ ~(HasId(tasks', t) /\ RowById(tasks', t).status = "pending") )
                  => \E r \in RequestIds :
                        /\ pc[r] = "progress_update" /\ pc'[r] = "done"
                        /\ req[r].taskId = Some(t)
      ]_vars

\* A callback that named another, existing task was applied, and the async
\* task is still pending.
C16_Witness ==
    \E t, u, r \in RequestIds :
        /\ req[t].kind = "async" /\ HasId(tasks, t)
        /\ RowById(tasks, t).status = "pending"
        /\ u # t /\ HasId(tasks, u)
        /\ req[r].kind = "progress" /\ req[r].taskId = Some(u)
        /\ req[r].status # None /\ resp[r].code = 200

\* ChunkedContentStore.read of the specification: the inline content when
\* the document has one, else its chunks in ascending chunk_index order,
\* else absent.
StoredContent(d) ==
    LET doc == RowById(documents, d)
        n == Cardinality(ChunkRowsOf(d))
    IN IF doc.content # None THEN doc.content
       ELSE IF n > 0 THEN Some(Join(SelectChunks(file_chunks, d)))
       ELSE None

\* The progress callback {progress: 100, status: "completed"} for task t.
ScenarioCallback(p, t) ==
    /\ req[p].kind = "progress" /\ req[p].taskId = Some(t)
    /\ req[p].hasProgress /\ req[p].progress = Some(100)
    /\ req[p].status = Some("completed")

\* C17 (Scenario C): the callback {progress: 100, status: "completed"} for
\* the task of a URL-async ingestion leaves it completed with progress 100;
\* a result retrieval for it that reads after the callback was applied (and
\* no other callback names the task) reads status completed, and answers 200
\* with that status and the content the store holds for the document.
C17_ScenarioC ==
    [][\A t, p, q \in RequestIds :
          ( /\ req[t].kind = "async" /\ ScenarioCallback(p, t)
            /\ \A o \in RequestIds \ {p} :
                  ~(req[o].kind = "progress" /\ req[o].taskId = Some(t)) )
          => /\ ( /\ pc[p] = "progress_update" /\ pc'[p] = "done"
                  /\ resp'[p].code = 200 )
                  => /\ RowById(tasks, t).status = "pending"
                     /\ RowById(tasks', t).status = "completed"
                     /\ RowById(tasks', t).progress = Some(100)
             /\ ( /\ req[q].kind = "result" /\ req[q].taskId = Some(t)
                  /\ pc[p] = "done" /\ resp[p].code = 200
                  /\ pc[q] = "result_join" /\ pc'[q] # "result_join"
                  /\ failures' = failures )
                  => \/ /\ pc'[q] = "result_chunks"
                        /\ joined'[q][1].task.status = "completed"
                     \/ /\ pc'[q] = "done" /\ resp'[q].code = 200
                        /\ resp'[q].status = "completed"
                        /\ resp'[q].content = StoredContent(t)
             /\ ( /\ req[q].kind = "result" /\ req[q].taskId = Some(t)
                  /\ pc[q] = "result_chunks" /\ pc'[q] = "done"
                  /\ failures' = failures
                  /\ joined[q][1].task.status = "completed" )
                  => /\ resp'[q].code = 200 /\ resp'[q].hasResult
                     /\ resp'[q].status = "completed"
                     /\ resp'[q].progress = Some(100)
                     /\ resp'[q].content = StoredContent(t)
      ]_vars

\* Scenario C has run: async ingestion, the callback, then the result.
C17_Witness ==
    \E t, p, q \in RequestIds :
        /\ req[t].kind = "async" /\ ScenarioCallback(p, t)
        /\ resp[p].code = 200
        /\ req[q].kind = "result" /\ req[q].taskId = Some(t)
        /\ resp[q].code = 200 /\ resp[q].status = "completed"
        /\ resp[q].progress = Some(100)
        /\ resp[q].content = StoredContent(t)

\* C18: the content of a result retrieval answered 200 is what
\* ChunkedContentStore.read holds for the document: its inline content when
\* it has one, else its chunks in ascending chunk_index order, else absent.
C18_ResultReadsStoredContent ==
    \A q \in RequestIds :
        (req[q].kind = "result" /\ resp[q].code = 200)
            => resp[q].content = StoredContent(resp[q].document_id)

\* The fields a status read of task row t carries.
StatusFields(response, t) ==
    /\ response.code = 200 /\ response.task_id = t.id
    /\ response.status = t.status /\ response.message = t.message
    /\ response.progress = t.progress /\ response.error = t.error

\* The fields a result retrieval adds from document row d.
ResultFields(response, t, d) ==
    /\ StatusFields(response, t)
    /\ response.hasResult /\ response.document_id = d.id
    /\ response.pages = d.pages /\ response.format = d.format

\* C19: a status read or result retrieval whose task id has no task row (or
\* whose task has no document row) answers 404; otherwise the answer carries
\* status, message, progress and error of the task row as read, and a result
\* retrieval also document_id, pages and format of the referenced document.
C19_ReadsReturnStoredFields ==
    [][\A r \in RequestIds :
          LET id == req[r].taskId[1]
          IN /\ (pc[r] = "poll_select" /\ pc'[r] = "done" /\ failures' = failures)
                  => IF ~HasId(tasks, id)
                     THEN resp'[r].code = 404 /\ ~resp'[r].hasResult
                     ELSE StatusFields(resp'[r], RowById(tasks, id))
                          /\ ~resp'[r].hasResult
             /\ (pc[r] = "result_join" /\ pc'[r] # "result_join"
                                       /\ failures' = failures)
                  => IF ~HasId(tasks, id)
                        \/ ~HasId(documents, RowById(tasks, id).document_id)
                     THEN pc'[r] = "done" /\ resp'[r].code = 404
                     ELSE LET t == RowById(tasks, id)
                              d == RowById(documents, t.document_id)
                          IN \/ pc'[r] = "done" /\ ResultFields(resp'[r], t, d)
                             \/ /\ pc'[r] = "result_chunks"
                                /\ joined'[r] = Some([task |-> t, doc |-> d])
             /\ (pc[r] = "result_chunks" /\ pc'[r] = "done"
                                         /\ failures' = failures)
                  => ResultFields(resp'[r], joined[r][1].task, joined[r][1].doc)
      ]_vars

\* A status read found its pending task and a result retrieval found none.
C19_Witness ==
    \E p, q \in RequestIds :
        /\ req[p].kind = "poll" /\ resp[p].code = 200
        /\ resp[p].status = "pending"
        /\ req[q].kind = "result" /\ resp[q].code = 404

TaskStatuses == {"pending", "processing", "completed", "failed"}

\* C20: in every reachable state each task row's status is one of pending,
\* processing, completed, failed.
C20_StatusInEnumeration ==
    \A i \in 1..Len(tasks) : tasks[i].status \in TaskStatuses

\* C21: in every reachable state each task row's progress is a number in
\* the range 0..100.
C21_ProgressInRange ==
    \A i \in 1..Len(tasks) :
        tasks[i].progress # None /\ tasks[i].progress[1] \in 0..100

\* C22: a progress callback answered 200 that supplies a status sets the
\* task it names to that status, whatever status the task had.
C22_StatusOverwritesAny ==
    [][\A r \in RequestIds :
          ( /\ pc[r] = "progress_update" /\ pc'[r] = "done"
            /\ resp'[r].code = 200 /\ Truthy(req[r].status) )
          => RowById(tasks', req[r].taskId[1]).status = req[r].status[1]
      ]_vars

\* A task created completed by a URL-sync ingestion has been moved back to
\* processing by a callback.
C22_Witness ==
    \E t, r \in RequestIds :
        /\ req[t].kind = "source" /\ resp[t].code = 200
        /\ req[r].kind = "progress" /\ req[r].taskId = Some(t)
        /\ resp[r].code = 200
        /\ RowById(tasks, t).status = "processing"

Ingestions == {"source", "file", "async"}

\* C23: document ids and task ids are each held by one row, a row with id r
\* was written by ingestion r, an ingestion answered 200 has its document
\* row and its task row, the task referencing the document, and no two task
\* rows reference the same document.
C23_OneDocumentOneTask ==
    /\ \A i, j \in 1..Len(documents) :
          /\ req[documents[i].id].kind \in Ingestions
          /\ documents[i].id = documents[j].id => i = j
    /\ \A i, j \in 1..Len(tasks) :
          /\ req[tasks[i].id].kind \in Ingestions
          /\ tasks[i].id = tasks[j].id => i = j
          /\ tasks[i].document_id = tasks[j].document_id => i = j
    /\ \A r \in RequestIds :
          (req[r].kind \in Ingestions /\ resp[r].code = 200)
            => /\ HasId(documents, r) /\ HasId(tasks, r)
               /\ RowById(tasks, r).document_id = r

\* Two ingestions of different flows have both answered 200.
C23_Witness ==
    \E p, q \in RequestIds :
        /\ req[p].kind = "async" /\ req[q].kind \in {"source", "file"}
        /\ resp[p].code = 200 /\ resp[q].code = 200
        /\ Len(documents) = 2 /\ Len(tasks) = 2

\* Every row of rows is at the same place, unchanged, in the next state.
RowsKept(rows, next) ==
    \A i \in 1..Len(rows) : Len(next) >= i /\ next[i] = rows[i]

\* C24: no step modifies or deletes a row of sources, file_chunks or
\* vectorizers, and no step deletes a document row.
C24_CreatedRowsAreKept ==
    [][ /\ RowsKept(sources, sources')
        /\ RowsKept(file_chunks, file_chunks')
        /\ RowsKept(vectorizers, vectorizers')
        /\ \A i \in 1..Len(documents) : HasId(documents', documents[i].id)
      ]_vars

\* A file document has been linked to its vectorizer next to the document
\* and the source rows of another ingestion.
C24_Witness ==
    \E p, q \in RequestIds :
        /\ req[p].kind = "file" /\ resp[p].code = 200
        /\ RowById(documents, p).vectorizer_id # None
        /\ req[q].kind = "async" /\ HasId(documents, q)
        /\ Len(SourceRowsOf(q)) > 0
        /\ Len(vectorizers) > 0

\* C25: a step that changes or removes an existing task row is the UPDATE
\* of a progress callback that names that row's id.
C25_TaskChangedOnlyByItsUpdate ==
    [][\A i \in 1..Len(tasks) :
          \/ Len(tasks') >= i /\ tasks'[i] = tasks[i]
          \/ \E r \in RequestIds :
                /\ pc[r] = "progress_update" /\ pc'[r] = "done"
                /\ req[r].taskId = Some(tasks[i].id)
      ]_vars

\* One task row is as its ingestion wrote it after a callback has changed
\* another task row and a reader has answered.
C25_Witness ==
    \E t, u \in RequestIds :
        /\ t # u /\ HasId(tasks, t) /\ HasId(tasks, u)
        /\ RowById(tasks, t) = TaskRow(t, "pending", t, "Document conversion queued")
        /\ RowById(tasks, u).progress # Some(0)
        /\ ProgressApplied(u)

\* C26: a step of a bootstrap run changes neither the position, the request,
\* the locals or the response of any handler nor a row of documents, tasks,
\* sources or file_chunks, and the step in which the run fails writes no row
\* at all: the failure is seen in the run's own position only.
C26_BootstrapNeverFailsRequest ==
    [][\A r \in RequestIds :
          (bpc[r] # "none" /\ bpc'[r] # bpc[r])
          => /\ UNCHANGED <<pc, req, resp, locals>>
             /\ UNCHANGED <<documents, tasks, sources, file_chunks>>
             /\ bpc'[r] = "failed" => UNCHANGED vectorizers
      ]_vars

\* The bootstrap run of an ingestion failed and the ingestion answered 200
\* with its rows written.
C26_Witness ==
    \E r \in RequestIds :
        /\ bpc[r] = "failed"
        /\ req[r].kind \in Ingestions /\ resp[r].code = 200
        /\ HasId(documents, r) /\ HasId(tasks, r)

\* C27: every error response (validation failure, NotFound, storage failure)
\* carries both an error field and a message field.
C27_UniformErrorEnvelope ==
    \A r \in RequestIds :
        resp[r].code \in {400, 404, 500}
            => resp[r].error # None /\ resp[r].message # None

\* C28: in every reachable state a completed task created by a file-sync
\* ingestion references a document whose vectorizer_id is set.
C28_FileTaskAfterLink ==
    \A r \in RequestIds :
        ( /\ req[r].kind = "file" /\ HasId(tasks, r)
          /\ RowById(tasks, r).status = "completed" )
        => /\ HasId(documents, RowById(tasks, r).document_id)
           /\ RowById(documents, RowById(tasks, r).document_id).vectorizer_id # None

\* C29: the step in which a handler's statement throws ends the handler
\* with a 500 response that carries a message, and changes no row; a handler
\* that has answered takes no further step (no retry), so the rows written
\* before the failure stay as they are.
C29_FailureKeepsPartialRows ==
    [][\A r \in RequestIds :
          /\ ( /\ pc[r] \notin {"idle", "done"}
               /\ pc'[r] # pc[r] /\ failures' # failures )
                => /\ pc'[r] = "done"
                   /\ resp'[r].code = 500 /\ resp'[r].message # None
                   /\ UNCHANGED tables
          /\ pc[r] = "done" => pc'[r] = "done" /\ resp'[r] = resp[r]
      ]_vars

\* A URL-sync ingestion of two sources failed after its first source row:
\* its document and task exist with one of the two sources.
C29_Witness ==
    \E r \in RequestIds :
        /\ req[r].kind = "source" /\ resp[r].code = 500
        /\ HasId(documents, r) /\ HasId(tasks, r)
        /\ Len(req[r].sources.items) = 2
        /\ Len(SourceRowsOf(r)) = 1

\* C30: a statement of a request's bootstrap run executes only once the
\* handler of that request has its response.
C30_BootstrapAfterResponse ==
    [][\A r \in RequestIds :
          (bpc[r] \in {"select", "insert"} /\ bpc'[r] # bpc[r])
              => pc[r] = "done"
      ]_vars

HasInlineContent(d) == RowById(documents, d).content # None

\* C31 as stated: in every reachable state a file-sync document has inline
\* content exactly when its content is at most the threshold long and chunk
\* rows exactly when it is longer; no document has both, and documents of
\* the URL flows have no chunk rows.
C31_InlineOrChunksAlways ==
    \A i \in 1..Len(documents) :
        LET d == documents[i].id
        IN /\ ~(HasInlineContent(d) /\ ChunkRowsOf(d) # {})
           /\ req[d].kind \in {"source", "async"} => ChunkRowsOf(d) = {}
           /\ req[d].kind = "file" =>
                /\ HasInlineContent(d)
                      <=> Len(UploadedText(d)) <= CHUNK_SIZE_TOKENS
                /\ ChunkRowsOf(d) # {}
                      <=> Len(UploadedText(d)) > CHUNK_SIZE_TOKENS

\* C31 amended: a file-sync document has inline content exactly when its
\* content is at most the threshold long, has chunk rows only when it is
\* longer, and has all ceil(L/T) of them once its task row exists; no
\* document has both, and documents of the URL flows have no chunk rows.
C31_InlineOrChunksOnceStored ==
    \A i \in 1..Len(documents) :
        LET d == documents[i].id
        IN /\ ~(HasInlineContent(d) /\ ChunkRowsOf(d) # {})
           /\ req[d].kind \in {"source", "async"} => ChunkRowsOf(d) = {}
           /\ req[d].kind = "file" =>
                LET L == Len(UploadedText(d))
                IN /\ HasInlineContent(d) <=> L <= CHUNK_SIZE_TOKENS
                   /\ ChunkRowsOf(d) # {} => L > CHUNK_SIZE_TOKENS
                   /\ Cardinality(ChunkRowsOf(d)) <= Ceil(L, CHUNK_SIZE_TOKENS)
                   /\ (FileStored(d) /\ L > CHUNK_SIZE_TOKENS)
                        => Cardinality(ChunkRowsOf(d)) = Ceil(L, CHUNK_SIZE_TOKENS)

\* A chunked upload whose chunk loop was cut short by a failure: the document
\* has no inline content and some, not all, of its chunk rows.
C31_Witness ==
    \E r \in RequestIds :
        /\ req[r].kind = "file" /\ resp[r].code = 500
        /\ HasId(documents, r) /\ ~HasInlineContent(r)
        /\ ChunkRowsOf(r) # {}
        /\ Cardinality(ChunkRowsOf(r))
              < Ceil(Len(UploadedText(r)), CHUNK_SIZE_TOKENS)

\* C32: a result retrieval that finds the task of a file-sync ingestion,
\* whatever that ingestion's handler is doing at the time, answers with the
\* complete uploaded content.
C32_ConcurrentResultIsComplete ==
    [][\A q \in RequestIds :
          ( /\ req[q].kind = "result"
            /\ pc[q] # "done" /\ pc'[q] = "done" /\ resp'[q].code = 200
            /\ req[resp'[q].task_id].kind = "file" )
          => resp'[q].content = Some(UploadedText(resp'[q].task_id))
      ]_vars

\* C33: a document's vectorizer_id, when set, names a vectorizers row whose
\* model_name is the model the document's ingestion asked for (the default
\* model name when it named none).
C33_LinkedVectorizerHasRequestedModel ==
    \A i \in 1..Len(documents) :
        documents[i].vectorizer_id # None =>
            /\ HasId(vectorizers, documents[i].vectorizer_id[1])
            /\ RowById(vectorizers, documents[i].vectorizer_id[1]).model_name
                  = OrElse(req[documents[i].id].model, DefaultModelName)

\* Two ingestions, one naming a model and one naming none, have linked their
\* documents while a bootstrap run inserted a row of its own.
C33_Witness ==
    \E p, q \in RequestIds :
        /\ HasId(documents, p) /\ HasId(documents, q)
        /\ RowById(documents, p).vectorizer_id # None
        /\ RowById(documents, q).vectorizer_id # None
        /\ req[p].model = Some("m2") /\ req[q].model = None
        /\ Len(vectorizers) >= 3


-----------------------------------------------------------------------------
\* The body of a progress callback fails `!data.task_id ||
\* data.progress === undefined`.
InvalidProgress(request) ==
    request.kind = "progress" /\ (request.taskId = None \/ ~request.hasProgress)

\* The handler of r, a progress callback, answers 200 in this step.
ProgressAccepted(r) == ProgressAnswered(r) /\ resp'[r].code = 200

\* C34: the handler of a progress callback that lacks task_id or whose
\* progress is undefined has one step only, the one that answers 400 Invalid
\* progress data, and that step changes no relation; the handler of every
\* accepted callback leaves the supplied progress, null included, as the
\* stored progress of the task it names.
C34_InvalidRejectedValidOverwrites ==
    [][\A r \in RequestIds :
          /\ (InvalidProgress(req'[r]) /\ pc'[r] # pc[r])
               => /\ pc[r] = "idle" /\ pc'[r] = "done"
                  /\ resp'[r] = ErrorResponse(400, "Invalid progress data")
                  /\ UNCHANGED tables
          /\ ProgressAccepted(r)
               => /\ ~InvalidProgress(req'[r])
                  /\ RowById(tasks', req'[r].taskId[1]).progress
                       = req'[r].progress
      ]_vars

\* A callback without progress has been rejected, and an accepted callback
\* whose progress is null has left null in place of the stored 0.
C34_Witness ==
    \E p, q \in RequestIds :
        /\ req[p].kind = "progress" /\ req[p].taskId = Some(1)
        /\ ~req[p].hasProgress /\ req[p].status = Some("completed")
        /\ resp[p] = ErrorResponse(400, "Invalid progress data")
        /\ req[q].kind = "progress" /\ req[q].taskId = Some(1)
        /\ req[q].hasProgress /\ req[q].progress = None
        /\ resp[q].code = 200
        /\ HasId(tasks, 1) /\ RowById(tasks, 1).progress = None

\* C35: an accepted callback whose message, error or status is the empty
\* string leaves that column of the named task as it was, as it does when
\* the field is omitted; and no step takes a message or an error that is
\* not null to null or to the empty string.
C35_EmptyStringKeepsStored ==
    [][ /\ \A r \in RequestIds :
             ProgressAccepted(r) =>
                LET data == req'[r]
                    old == RowById(tasks, data.taskId[1])
                    new == RowById(tasks', data.taskId[1])
                IN /\ data.message \in {None, Some("")}
                        => new.message = old.message
                   /\ data.error \in {None, Some("")}
                        => new.error = old.error
                   /\ data.status \in {None, Some("")}
                        => new.status = old.status
        /\ \A i \in 1..Len(tasks) :
             /\ Len(tasks') >= i
             /\ tasks[i].message # None
                  => tasks'[i].message \notin {None, Some("")}
             /\ tasks[i].error # None
                  => tasks'[i].error \notin {None, Some("")}
      ]_vars

\* A callback has set the message, the error and the status of a task, and
\* a later accepted callback has carried the empty string for all three: the
\* three columns hold what the first callback wrote.
C35_Witness ==
    \E p, q \in RequestIds :
        /\ p < q
        /\ req[p].kind = "progress" /\ req[p].taskId = Some(1)
        /\ req[p].message = Some("half way") /\ req[p].error = Some("boom")
        /\ req[p].status = Some("processing") /\ resp[p].code = 200
        /\ req[q].kind = "progress" /\ req[q].taskId = Some(1)
        /\ req[q].message = Some("") /\ req[q].error = Some("")
        /\ req[q].status = Some("") /\ resp[q].code = 200
        /\ RowById(tasks, 1).message = Some("half way")
        /\ RowById(tasks, 1).error = Some("boom")
        /\ RowById(tasks, 1).status = "processing"

\* C36: the step of an accepted progress callback changes no row of
\* documents, sources, file_chunks or vectorizers and no task row but the one
\* it names, and leaves that row's id, document_id and created_at as they
\* were.
C36_UpdateTouchesNamedTaskOnly ==
    [][\A r \in RequestIds :
          ProgressAccepted(r) =>
             LET id == req'[r].taskId[1]
             IN /\ UNCHANGED <<documents, sources, file_chunks, vectorizers>>
                /\ Len(tasks') = Len(tasks)
                /\ \A i \in 1..Len(tasks) :
                     IF tasks[i].id = id
                     THEN /\ tasks'[i].id = tasks[i].id
                          /\ tasks'[i].document_id = tasks[i].document_id
                          /\ tasks'[i].created_at = tasks[i].created_at
                     ELSE tasks'[i] = tasks[i]
      ]_vars

\* The second of two tasks has been moved to processing with progress 150
\* by an accepted callback; it still references its own document and keeps
\* its creation time, and the first task is as its ingestion wrote it.
C36_Witness ==
    \E p \in RequestIds :
        /\ req[p].kind = "progress" /\ req[p].taskId = Some(2)
        /\ req[p].progress = Some(150) /\ resp[p].code = 200
        /\ HasId(tasks, 2) /\ HasId(tasks, 1)
        /\ RowById(tasks, 2).status = "processing"
        /\ RowById(tasks, 2).document_id = 2
        /\ RowById(tasks, 2).created_at = 2
        /\ RowById(tasks, 1).created_at = 1
        /\ RowById(tasks, 1).progress = Some(0)
        /\ Len(documents) = 2 /\ Len(sources) = 2

\* C37: no step taken for a status-poll or result-retrieval request, by its
\* handler or by the bootstrap run launched with it, changes a row of the
\* five relations.
C37_ReadsChangeNothing ==
    [][\A r \in RequestIds :
          ( /\ req'[r].kind \in {"poll", "result"}
            /\ (pc'[r] # pc[r] \/ bpc'[r] # bpc[r]) )
          => UNCHANGED tables
      ]_vars

-----------------------------------------------------------------------------
\* The kind of the ingestion that created document d.
CreatedBy(d) == req[d].kind

\* C38: a document created by URL-sync holds the placeholder
\* JSON.stringify({source: 'url'}), which is not empty, and no chunk rows; a
\* result retrieval for its task never reaches the chunk SELECT and answers
\* with the placeholder as content.  A document created by URL-async holds
\* no inline content and no chunk rows, and a result retrieval for its task
\* answers with content absent.
C38_UrlDocumentContent ==
    /\ Len(UrlContent) > 0
    /\ \A i \in 1..Len(documents) :
          LET doc == documents[i]
          IN /\ CreatedBy(doc.id) = "source"
                  => doc.content = Some(UrlContent) /\ ChunkRowsOf(doc.id) = {}
             /\ CreatedBy(doc.id) = "async"
                  => doc.content = None /\ ChunkRowsOf(doc.id) = {}
    /\ \A r \in RequestIds :
          req[r].kind = "result" =>
             /\ pc[r] = "result_chunks"
                  => CreatedBy(joined[r][1].doc.id) # "source"
             /\ (resp[r].code = 200 /\ CreatedBy(resp[r].document_id) = "source")
                  => resp[r].content = Some(UrlContent)
             /\ (resp[r].code = 200 /\ CreatedBy(resp[r].document_id) = "async")
                  => resp[r].content = None

\* A result retrieval for the task of a URL-sync ingestion has answered with
\* the placeholder, next to the document of a URL-async ingestion that holds
\* no content.
C38_Witness ==
    \E r, s, a \in RequestIds :
        /\ req[r].kind = "result" /\ resp[r].code = 200
        /\ resp[r].document_id = s /\ CreatedBy(s) = "source"
        /\ resp[r].content = Some(UrlContent)
        /\ CreatedBy(a) = "async" /\ HasId(documents, a)
        /\ RowById(documents, a).content = None

\* C39: a file-sync request that carries k >= 1 files is rejected as too
\* large exactly when its first file exceeds the maximum; the document it
\* creates has the name of the first file, pages = k and, once its task row
\* exists, the text of the first file as its stored content; and its 200
\* response reports result.pages = k.
C39_FirstFileOnly ==
    \A r \in RequestIds :
        (req[r].kind = "file" /\ Len(req[r].files) >= 1) =>
           LET first == req[r].files[1]
               k == Len(req[r].files)
           IN /\ resp[r] = ErrorResponse(400, "File size exceeds the 5 MB limit")
                   <=> FileTooLarge(first)
              /\ FileTooLarge(first) => ~HasId(documents, r)
              /\ HasId(documents, r)
                   => /\ RowById(documents, r).name = first.name
                      /\ RowById(documents, r).pages = k
                      /\ RowById(documents, r).content
                            \in {None, Some(first.text)}
              /\ FileStored(r) => StoredContent(r) = Some(first.text)
              /\ resp[r].code = 200
                   => FileStored(r) /\ resp[r].pages = k

\* A request with two files, the second beyond the maximum, has answered 200
\* with result.pages = 2; its document has the name and the text of the first
\* file.
C39_Witness ==
    \E r \in RequestIds :
        /\ req[r].kind = "file" /\ Len(req[r].files) = 2
        /\ FileTooLarge(req[r].files[2])
        /\ resp[r].code = 200 /\ resp[r].pages = 2
        /\ RowById(documents, r).name = "a.txt"
        /\ RowById(documents, r).pages = 2
        /\ StoredContent(r) = Some(Text(1))

====
